---------------------------- MODULE Spec2Model ----------------------------
(***************************************************************************)
(* Model of the Omi mentor application's notification pipeline:            *)
(*   - MentorService (src/README.md 223-329): the profile store that owns  *)
(*     notificationQueue and conversationHistory;                          *)
(*   - NotificationService (src/README.md 363-443): the setInterval-driven *)
(*     scheduler whose async checkAndSendNotifications dispatches the due  *)
(*     notifications and acknowledges them with markNotificationsAsSent;   *)
(*   - the notification factory and delivery-time policy of                *)
(*     src/src/utils/mentorUtils.js, as used by a caller that enqueues a   *)
(*     built notification through queueNotification.                       *)
(*                                                                         *)
(* Time is counted in minutes.  A JavaScript object identity is modelled   *)
(* by the field uid (the order of creation); it is no property of the      *)
(* program's objects and the program never reads it.  The field created    *)
(* records the instant of construction, for the properties only.           *)
(*                                                                         *)
(* checkAndSendNotifications is an async function: every                   *)
(* `await this.sendNotification(n)` suspends the invocation until the      *)
(* delivery channel settles, and other event-loop tasks (timer callbacks,  *)
(* conversation callbacks, start()/stop()) run in between.                 *)
(*                                                                         *)
(* Of a conversation and of the insights drawn from it the model keeps     *)
(* the sentiment score (in hundredths) and the action items; userProfile,  *)
(* the spread of the latest insights over the earlier ones, is therefore   *)
(* the latest sentiment.  Array.prototype.sort is taken to be stable       *)
(* (ECMAScript 2019).                                                      *)
(***************************************************************************)
EXTENDS Integers, Sequences, FiniteSets, TLC

VARIABLES
    now,                  \* wall clock, minutes (new Date(), Date.now())
    nextUid,              \* next object identity
    userProfile,          \* MentorService.userProfile
    conversationHistory,  \* MentorService.conversationHistory
    notificationQueue,    \* MentorService.notificationQueue
    notificationInterval, \* NotificationService.notificationInterval
    timers,               \* interval timers armed by setInterval and not cleared
    nextTimer,            \* next handle setInterval returns
    runs,                 \* suspended invocations of checkAndSendNotifications
    delivered,            \* uids of the notifications a dispatch of which succeeded
    platform,             \* Platform.OS of the device the application runs on
    omi,                  \* OmiService, its interval timers and its subscriptions
    last                  \* the operation the last step performed

vars == <<now, nextUid, userProfile, conversationHistory, notificationQueue,
          notificationInterval, timers, nextTimer, runs, delivered, platform,
          omi, last>>

--------------------------------------------------------------------------
(* Bounds of the model *)

MaxTime == 60
MaxNotifs == 3
MaxItems == 2
MaxHistory == 1
MaxTimers == 2
MaxRuns == 2
MaxDispatch == 2
MaxAtoms == 2
MaxFiller == 25
MaxTopicWords == 3
MaxProfileHistory == 3
MaxSubscriptions == 3

(* Program constants *)

TriggerDelay == 60
EncouragementDelay == 15
EncouragementThreshold == 30
MediumDelay == 5
LowDelay == 30

\* an object without an id property: notification.id evaluates to undefined
NoId == <<>>
\* this.notificationInterval = null
NoInterval == 0
\* an absent insights.sentiment; userProfile = {} has none either
NoSentiment == <<>>

Range(s) == {s[i] : i \in 1..Len(s)}
Uids(s) == [i \in 1..Len(s) |-> s[i].uid]

--------------------------------------------------------------------------
(* MentorService helpers (src/README.md 331-356) *)

\* the action items a conversation or a test may carry; urgency is the
\* insight's own urgency, which calculatePriority is handed with the item
ActionItems == {[content |-> "call the client", urgency |-> "high"],
                [content |-> "finish the report", urgency |-> "medium"]}

\* sentiment scores in hundredths, as the mock feed produces them
SentimentScores == {10, 30}

extractActionItems(conversationData) == <<>>

calculatePriority(actionItem) == "medium"

\* a trigger time an hour before now: the fault C12 is tested against
TriggerTimeInPast(actionItem, t) == t - TriggerDelay

calculateOptimalTriggerTime(actionItem, t) == t + TriggerDelay

--------------------------------------------------------------------------
(* Notification factory and delivery-time policy (mentorUtils.js) *)

\* JavaScript values: a field that is missing reads as undefined, and a
\* number stands for the values that are not strings
Undefined == "<undefined>"
NumberValue == "<number 42>"

IsString(v) == v \notin {Undefined, NumberValue}

\* what !v tests: undefined and the empty string are falsy
Truthy(v) == v \notin {Undefined, ""}

\* String.prototype.toLowerCase on the strings that occur
toLowerCase(v) ==
    CASE v = "ACTION_ITEM" -> "action_item"
      [] v = "Meeting_Prep" -> "meeting_prep"
      [] v = "Supportive Coach" -> "supportive coach"
      [] v = "Great" -> "great"
      [] v = "Budget" -> "budget"
      [] OTHER -> v

\* ${v} in a template literal
Str(v) == IF v = Undefined THEN "undefined" ELSE v

\* the priority generateNotification's switch assigns
FactoryPriority(insight) ==
    CASE toLowerCase(insight.type) = "action_item" ->
             IF Truthy(insight.urgency) THEN insight.urgency ELSE "medium"
      [] toLowerCase(insight.type) = "meeting_prep" -> "high"
      [] toLowerCase(insight.type) = "focus_time" -> "medium"
      [] toLowerCase(insight.type) = "wellbeing" -> "medium"
      [] toLowerCase(insight.type) = "learning" -> "low"
      [] toLowerCase(insight.type) = "social" -> "low"
      [] OTHER -> "medium"

\* a delivery-time policy whose medium branch is missing: the fault C11 is
\* tested against
DeliveryTimeNoMedium(hasProfile, priority, t) ==
    IF ~hasProfile THEN t
    ELSE IF priority = "high" THEN t
    ELSE t + LowDelay

calculateOptimalDeliveryTime(hasProfile, priority, t) ==
    IF ~hasProfile THEN t
    ELSE IF priority = "high" THEN t
    ELSE IF priority = "medium" THEN t + MediumDelay
    ELSE t + LowDelay

\* id: `notif-${Date.now()}`
FactoryId(t) == <<"notif", t>>

\* the insights a caller builds notifications from
FactoryInsights == {[type |-> "meeting_prep", urgency |-> "medium"],
                    [type |-> "wellbeing", urgency |-> "medium"],
                    [type |-> "learning", urgency |-> "medium"]}

\* generateNotification(userProfile, insight), scheduled by
\* calculateOptimalDeliveryTime(userProfile, notification)
generateNotification(hasProfile, insight, t, uid) ==
    [uid |-> uid,
     id |-> FactoryId(t),
     type |-> "undefined",
     priority |-> FactoryPriority(insight),
     triggerTime |-> calculateOptimalDeliveryTime(hasProfile, FactoryPriority(insight), t),
     created |-> t]

--------------------------------------------------------------------------
(* generateNotification in full (mentorUtils.js 165-260): texts are         *)
(* sequences of pieces, a template literal concatenates its pieces.         *)

\* participants: <<>> when the field is missing, <<list>> when it is there
NoParticipants == <<>>

\* Array.prototype.join(', ')
RECURSIVE Join(_)
Join(list) ==
    IF list = <<>> THEN <<>>
    ELSE IF Len(list) = 1 THEN <<Head(list)>>
    ELSE <<Head(list), ", ">> \o Join(Tail(list))

\* the text ${message} yields for a message
Text(message) == [i \in DOMAIN message |-> Str(message[i])]

FactoryTitle(insight) ==
    CASE toLowerCase(insight.type) = "action_item" -> "Action Item Reminder"
      [] toLowerCase(insight.type) = "meeting_prep" -> "Meeting Preparation"
      [] toLowerCase(insight.type) = "focus_time" -> "Focus Time Analysis"
      [] toLowerCase(insight.type) = "wellbeing" -> "Wellbeing Check"
      [] toLowerCase(insight.type) = "learning" -> "Learning Opportunity"
      [] toLowerCase(insight.type) = "social" -> "Social Insight"
      [] OTHER -> "Mentor Insight"

\* the switch reads insight.participants.join, which a missing field fails
SwitchThrows(insight) ==
    /\ toLowerCase(insight.type) = "meeting_prep"
    /\ insight.participants = NoParticipants

\* the message the switch assigns; a bare insight.content may be undefined
FactoryMessage(insight) ==
    CASE toLowerCase(insight.type) = "action_item" ->
             <<"Don't forget: ", Str(insight.content)>>
      [] toLowerCase(insight.type) = "meeting_prep" ->
             <<"You have a meeting with ">> \o Join(insight.participants[1])
                 \o <<" in ", Str(insight.timeUntil), " minutes. ",
                      IF Truthy(insight.context) THEN insight.context ELSE "">>
      [] toLowerCase(insight.type) = "focus_time" ->
             <<"You've been ", Str(insight.focusState), " for ",
               Str(insight.duration), " minutes. ", Str(insight.suggestion)>>
      [] toLowerCase(insight.type) = "learning" ->
             <<"Based on your conversations about ", Str(insight.topic),
               ", you might be interested in ", Str(insight.suggestion), ".">>
      [] OTHER -> <<insight.content>>

\* a decoration that overwrites the message: the fault C18 is tested against
PersonalizeOverwrite(message, mentorStyle) ==
    CASE toLowerCase(mentorStyle) = "supportive coach" -> <<" You're doing great!">>
      [] toLowerCase(mentorStyle) = "analytical guide" -> <<"Analysis: ">>
      [] toLowerCase(mentorStyle) = "friendly companion" -> <<"Hey there! ">>
      [] toLowerCase(mentorStyle) = "productivity expert" -> <<"For optimal productivity: ">>
      [] OTHER -> message

\* personalizeNotification(notification, mentorStyle): the new message
personalizeNotification(message, mentorStyle) ==
    CASE toLowerCase(mentorStyle) = "supportive coach" ->
             Text(message) \o <<" You're doing great!">>
      [] toLowerCase(mentorStyle) = "analytical guide" ->
             <<"Analysis: ">> \o Text(message)
      [] toLowerCase(mentorStyle) = "friendly companion" ->
             <<"Hey there! ">> \o Text(message)
      [] toLowerCase(mentorStyle) = "productivity expert" ->
             <<"For optimal productivity: ">> \o Text(message)
      [] OTHER -> message

\* a user profile is <<>> when absent, <<mentorStyle>> when present
NoProfile == <<>>

Personalizes(profile) == profile # NoProfile /\ Truthy(profile[1])

\* generateNotification(userProfile, insight): null, a notification, or the
\* TypeError of toLowerCase on a value that is no string and of join on a
\* missing participants field
GenerateNotificationResult(profile, insight, t) ==
    IF ~insight.present \/ ~Truthy(insight.type) THEN [outcome |-> "null"]
    ELSE IF ~IsString(insight.type) THEN [outcome |-> "TypeError"]
    ELSE IF SwitchThrows(insight) THEN [outcome |-> "TypeError"]
    ELSE IF Personalizes(profile) /\ ~IsString(profile[1])
         THEN [outcome |-> "TypeError"]
    ELSE [outcome |-> "notification",
          id |-> FactoryId(t),
          timestamp |-> t,
          read |-> FALSE,
          title |-> FactoryTitle(insight),
          priority |-> FactoryPriority(insight),
          message |-> IF Personalizes(profile)
                      THEN personalizeNotification(FactoryMessage(insight), profile[1])
                      ELSE FactoryMessage(insight)]

--------------------------------------------------------------------------
(* analyzeSentiment (mentorUtils.js 54-104). A text is a sequence of atoms: *)
(* words, separated by blanks, and the full stop "."; the score is the      *)
(* exact fraction num / den.                                                *)

positiveWords ==
    {"good", "great", "excellent", "amazing", "wonderful", "fantastic",
     "happy", "excited", "pleased", "love", "enjoy", "positive", "success",
     "achievement", "accomplished", "proud", "delighted", "perfect"}

negativeWords ==
    {"bad", "terrible", "awful", "horrible", "poor", "disappointing",
     "sad", "angry", "upset", "hate", "dislike", "negative", "failure",
     "problem", "issue", "trouble", "difficult", "frustrated", "annoyed"}

IsWord(atom) == atom # "."

\* text.toLowerCase().split(/\W+/): the words in order, with an empty string
\* in front when the text starts with a separator and one behind when it
\* ends with one
SplitWords(atoms) ==
    (IF ~IsWord(atoms[1]) THEN <<"">> ELSE <<>>)
        \o [i \in 1..Len(SelectSeq(atoms, IsWord)) |->
               toLowerCase(SelectSeq(atoms, IsWord)[i])]
        \o (IF ~IsWord(atoms[Len(atoms)]) THEN <<"">> ELSE <<>>)

CountIn(words, list) == Cardinality({i \in 1..Len(words) : words[i] \in list})

\* a score left as computed: the fault C19 is tested against
NoClamp(num, den) == num

\* Math.max(0, Math.min(1, score)) on the fraction num / den
Clamp(num, den) == IF num < 0 THEN 0 ELSE IF num > den THEN den ELSE num

\* the label of the score num / den
SentimentLabel(num, den) ==
    IF 4 * num >= 3 * den THEN "very positive"
    ELSE IF 5 * num >= 3 * den THEN "positive"
    ELSE IF 5 * num >= 2 * den THEN "neutral"
    ELSE IF 4 * num >= den THEN "negative"
    ELSE "very negative"

\* 0.5 + (positiveCount / totalWords - negativeCount / totalWords) * 2.5
\*   = (totalWords + 5 * (positiveCount - negativeCount)) / (2 * totalWords)
analyzeSentiment(text) ==
    IF ~text.given \/ text.atoms = <<>>
    THEN [num |-> 1, den |-> 2, label |-> "neutral"]
    ELSE LET words == SplitWords(text.atoms)
             positiveCount == CountIn(words, positiveWords)
             negativeCount == CountIn(words, negativeWords)
             totalWords == Len(words)
             den == 2 * totalWords
             num == IF positiveCount > 0 \/ negativeCount > 0
                    THEN Clamp(totalWords + 5 * (positiveCount - negativeCount), den)
                    ELSE totalWords
         IN [num |-> num, den |-> den, label |-> SentimentLabel(num, den)]

--------------------------------------------------------------------------
(* extractActionItems of mentorUtils.js (13-47). A string is the sequence   *)
(* of its characters.                                                       *)

\* the characters of the words that occur
Chars(w) ==
    CASE w = "I" -> <<"I">>
      [] w = "need" -> <<"n", "e", "e", "d">>
      [] w = "to" -> <<"t", "o">>
      [] w = "finish" -> <<"f", "i", "n", "i", "s", "h">>
      [] w = "the" -> <<"t", "h", "e">>
      [] w = "report" -> <<"r", "e", "p", "o", "r", "t">>
      [] w = "by" -> <<"b", "y">>
      [] w = "tomorrow" -> <<"t", "o", "m", "o", "r", "r", "o", "w">>
      [] w = "Um" -> <<"U", "m">>
      [] w = "It" -> <<"I", "t">>
      [] w = "was" -> <<"w", "a", "s">>
      [] w = "a" -> <<"a">>
      [] w = "great" -> <<"g", "r", "e", "a", "t">>
      [] w = "meeting" -> <<"m", "e", "e", "t", "i", "n", "g">>
      [] w = "William" -> <<"W", "i", "l", "l", "i", "a", "m">>
      [] w = "here" -> <<"h", "e", "r", "e">>
      [] w = "today" -> <<"t", "o", "d", "a", "y">>
      [] w = "will" -> <<"w", "i", "l", "l">>
      [] w = "go" -> <<"g", "o">>
      [] w = "Some" -> <<"S", "o", "m", "e">>
      [] w = "of" -> <<"o", "f">>
      [] w = "us" -> <<"u", "s">>
      [] w = "should" -> <<"s", "h", "o", "u", "l", "d">>
      [] w = "rest" -> <<"r", "e", "s", "t">>
      [] w = "have" -> <<"h", "a", "v", "e">>
      [] w = "going" -> <<"g", "o", "i", "n", "g">>
      [] w = "must" -> <<"m", "u", "s", "t">>
      [] w = "plan" -> <<"p", "l", "a", "n">>
      [] w = "want" -> <<"w", "a", "n", "t">>
      [] w = "intend" -> <<"i", "n", "t", "e", "n", "d">>
      [] w = "um" -> <<"u", "m">>
      [] w = "uh" -> <<"u", "h">>
      [] w = "so" -> <<"s", "o">>
      [] w = "like" -> <<"l", "i", "k", "e">>
      [] w = "well" -> <<"w", "e", "l", "l">>
      [] w = "i" -> <<"i">>
      [] w = "mean" -> <<"m", "e", "a", "n">>
      [] w = "you" -> <<"y", "o", "u">>
      [] w = "know" -> <<"k", "n", "o", "w">>
      [] w = "basically" -> <<"b", "a", "s", "i", "c", "a", "l", "l", "y">>

\* the words with a blank between them
RECURSIVE Spell(_)
Spell(words) ==
    IF words = <<>> THEN <<>>
    ELSE IF Len(words) = 1 THEN Chars(Head(words))
    ELSE Chars(Head(words)) \o <<" ">> \o Spell(Tail(words))

LowerChar(c) ==
    CASE c = "I" -> "i" [] c = "U" -> "u" [] c = "W" -> "w" [] c = "S" -> "s"
      [] OTHER -> c

Lower(str) == [i \in DOMAIN str |-> LowerChar(str[i])]

RECURSIVE TrimStart(_)
TrimStart(str) ==
    IF str # <<>> /\ Head(str) = " " THEN TrimStart(Tail(str)) ELSE str

RECURSIVE TrimEnd(_)
TrimEnd(str) ==
    IF str # <<>> /\ str[Len(str)] = " "
    THEN TrimEnd(SubSeq(str, 1, Len(str) - 1)) ELSE str

Trim(str) == TrimEnd(TrimStart(str))

StartsWith(str, prefix) ==
    Len(prefix) <= Len(str) /\ SubSeq(str, 1, Len(prefix)) = prefix

\* str.includes(part)
IncludesText(str, part) ==
    \E k \in 0..(Len(str) - Len(part)) : SubSeq(str, k + 1, k + Len(part)) = part

actionPhrases ==
    <<Spell(<<"need", "to">>), Spell(<<"have", "to">>), Spell(<<"should">>),
      Spell(<<"will">>), Spell(<<"going", "to">>), Spell(<<"must">>),
      Spell(<<"plan", "to">>), Spell(<<"want", "to">>), Spell(<<"intend", "to">>)>>

\* the alternatives of /^(um|uh|so|like|well|i mean|you know|basically)/i
fillers ==
    <<Spell(<<"um">>), Spell(<<"uh">>), Spell(<<"so">>), Spell(<<"like">>),
      Spell(<<"well">>), Spell(<<"i", "mean">>), Spell(<<"you", "know">>),
      Spell(<<"basically">>)>>

IsMark(c) == c \in {".", "!", "?"}

\* text.split(/[.!?]+/): the pieces between runs of sentence marks; a piece
\* starts at the start of the text and behind every run of marks, and ends
\* in front of the next mark or at the end of the text
SplitSentences(str) ==
    LET starts == {i \in 1..(Len(str) + 1) :
                      /\ i = 1 \/ IsMark(str[i - 1])
                      /\ i = 1 \/ i = Len(str) + 1 \/ ~IsMark(str[i])}
        stop(i) == CHOOSE j \in i..(Len(str) + 1) :
                       /\ j = Len(str) + 1 \/ IsMark(str[j])
                       /\ \A k \in i..(j - 1) : ~IsMark(str[k])
        start(n) == CHOOSE i \in starts : Cardinality({j \in starts : j < i}) = n - 1
    IN [n \in 1..Cardinality(starts) |-> SubSeq(str, start(n), stop(start(n)) - 1)]

\* .replace(/^(um|...|basically)/i, ''): the first alternative found at the
\* start is cut off, whatever follows it
RemoveFiller(str) ==
    LET found == {k \in 1..Len(fillers) : StartsWith(Lower(str), fillers[k])}
    IN IF found = {} THEN str
       ELSE LET k == CHOOSE k \in found : \A j \in found : k <= j
            IN SubSeq(str, Len(fillers[k]) + 1, Len(str))

HasActionPhrase(sentence) ==
    \E k \in 1..Len(actionPhrases) : IncludesText(Lower(sentence), actionPhrases[k])

\* the loop over the sentences
RECURSIVE CollectActionItems(_, _)
CollectActionItems(sentences, actionItems) ==
    IF sentences = <<>> THEN actionItems
    ELSE LET actionItem == Trim(RemoveFiller(Trim(Head(sentences))))
         IN IF /\ HasActionPhrase(Head(sentences))
               /\ Len(actionItem) > 10
               /\ \A i \in 1..Len(actionItems) : actionItems[i] # actionItem
            THEN CollectActionItems(Tail(sentences), Append(actionItems, actionItem))
            ELSE CollectActionItems(Tail(sentences), actionItems)

\* extractActionItems(text) of mentorUtils.js
ExtractActionItems(text) ==
    IF ~text.given \/ text.chars = <<>> THEN <<>>
    ELSE CollectActionItems(
             SelectSeq(SplitSentences(text.chars), LAMBDA x : Len(Trim(x)) > 0),
             <<>>)

--------------------------------------------------------------------------
(* identifyTopics (mentorUtils.js 112-157). The text is a sequence of words *)
(* with a blank between them; a keyword is the sequence of its words, and   *)
(* \bkeyword\b matches where these words stand in the text.                 *)

\* the topics and their keywords, in the order of declaration
topicKeywords ==
    <<
      [topic |-> "work",
       keywords |-> <<<<"job">>, <<"work">>, <<"project">>, <<"task">>,
                    <<"deadline">>, <<"meeting">>, <<"client">>, <<"boss">>,
                    <<"colleague">>>>],
      [topic |-> "health",
       keywords |-> <<<<"health">>, <<"exercise">>, <<"workout">>, <<"gym">>,
                    <<"run">>, <<"sleep">>, <<"diet">>, <<"food">>,
                    <<"stress">>, <<"tired">>>>],
      [topic |-> "productivity",
       keywords |-> <<<<"productive">>, <<"efficiency">>, <<"focus">>,
                    <<"distraction">>, <<"procrastination">>,
                    <<"time", "management">>, <<"priority">>>>],
      [topic |-> "learning",
       keywords |-> <<<<"learn">>, <<"study">>, <<"course">>, <<"book">>,
                    <<"read">>, <<"knowledge">>, <<"skill">>,
                    <<"training">>>>],
      [topic |-> "social",
       keywords |-> <<<<"friend">>, <<"family">>, <<"relationship">>,
                    <<"social">>, <<"party">>, <<"meet">>, <<"talk">>,
                    <<"conversation">>>>],
      [topic |-> "finance",
       keywords |-> <<<<"money">>, <<"finance">>, <<"budget">>, <<"expense">>,
                    <<"cost">>, <<"save">>, <<"invest">>, <<"purchase">>,
                    <<"buy">>>>],
      [topic |-> "technology",
       keywords |-> <<<<"tech">>, <<"computer">>, <<"software">>, <<"app">>,
                    <<"device">>, <<"phone">>, <<"digital">>, <<"online">>,
                    <<"internet">>>>],
      [topic |-> "travel",
       keywords |-> <<<<"travel">>, <<"trip">>, <<"vacation">>, <<"visit">>,
                    <<"flight">>, <<"hotel">>, <<"destination">>,
                    <<"journey">>>>],
      [topic |-> "creativity",
       keywords |-> <<<<"creative">>, <<"design">>, <<"art">>, <<"write">>,
                    <<"create">>, <<"idea">>, <<"inspiration">>,
                    <<"project">>>>],
      [topic |-> "wellbeing",
       keywords |-> <<<<"wellbeing">>, <<"happiness">>, <<"mood">>,
                    <<"emotion">>, <<"feel">>, <<"mental">>, <<"meditation">>,
                    <<"mindfulness">>>>]
    >>

\* lowerText.match(regex).length: the places of the text where the keyword
\* stands
Matches(words, keyword) ==
    Cardinality({k \in 0..(Len(words) - Len(keyword)) :
                    \A j \in 1..Len(keyword) : toLowerCase(words[k + j]) = keyword[j]})

RECURSIVE SumMatches(_, _)
SumMatches(words, keywords) ==
    IF keywords = <<>> THEN 0
    ELSE Matches(words, Head(keywords)) + SumMatches(words, Tail(keywords))

\* Object.entries(topicScores)
topicScores(words) ==
    [i \in 1..Len(topicKeywords) |->
        [topic |-> topicKeywords[i].topic,
         score |-> SumMatches(words, topicKeywords[i].keywords)]]

\* a comparator that sorts by ascending score: the fault C21 is tested
\* against
ScoreAscending(a, b) == a.score - b.score

\* the comparator ([_, scoreA], [__, scoreB]) => scoreB - scoreA
ScoreDescending(a, b) == b.score - a.score

\* Array.prototype.sort, which is stable: an entry goes behind the entries
\* it does not precede
RECURSIVE InsertByScore(_, _)
InsertByScore(sorted, entry) ==
    IF sorted = <<>> THEN <<entry>>
    ELSE IF ScoreDescending(entry, Head(sorted)) < 0
         THEN <<entry>> \o sorted
         ELSE <<Head(sorted)>> \o InsertByScore(Tail(sorted), entry)

RECURSIVE SortByScore(_)
SortByScore(entries) ==
    IF entries = <<>> THEN <<>>
    ELSE InsertByScore(SortByScore(SubSeq(entries, 1, Len(entries) - 1)),
                       entries[Len(entries)])

\* the default value of the parameter maxTopics
DefaultMaxTopics == 3

\* maxTopics is <<>> when the argument is omitted and <<n>> when it is n
identifyTopics(text, maxTopics) ==
    IF ~text.given \/ text.words = <<>> THEN <<>>
    ELSE LET limit == IF maxTopics = <<>> THEN DefaultMaxTopics ELSE maxTopics[1]
             sortedTopics ==
                 SortByScore(SelectSeq(topicScores(text.words), LAMBDA e : e.score > 0))
         IN [i \in 1..(IF Len(sortedTopics) < limit THEN Len(sortedTopics) ELSE limit)
                |-> sortedTopics[i].topic]

--------------------------------------------------------------------------
(* MentorService queue operations (src/README.md 295-328) *)

priorityOrder(p) == CASE p = "high" -> 0 [] p = "medium" -> 1 [] p = "low" -> 2

\* a comparator that forgets the priority: the fault C6 is tested against
CompareTimeOnly(a, b) == a.triggerTime - b.triggerTime

\* the comparator handed to Array.prototype.sort
Compare(a, b) ==
    LET priorityDiff == priorityOrder(a.priority) - priorityOrder(b.priority)
    IN IF priorityDiff # 0 THEN priorityDiff ELSE a.triggerTime - b.triggerTime

\* Array.prototype.sort is stable: x goes before the first element that
\* compares greater than x
RECURSIVE InsertSorted(_, _)
InsertSorted(s, x) ==
    IF s = <<>> THEN <<x>>
    ELSE IF Compare(Head(s), x) > 0 THEN <<x>> \o s
    ELSE <<Head(s)>> \o InsertSorted(Tail(s), x)

\* a queue left as pushed: the fault C24 is tested against
SortOmitted(q) == q

RECURSIVE sortNotificationQueue(_)
sortNotificationQueue(q) ==
    IF q = <<>> THEN <<>>
    ELSE InsertSorted(sortNotificationQueue(SubSeq(q, 1, Len(q) - 1)), q[Len(q)])

queueNotification(q, notification) == sortNotificationQueue(Append(q, notification))

IsDue(notification, t) == notification.triggerTime <= t

\* a filter that lets everything through: the fault C9 is tested against
getPendingAll(q, t) == q

getPendingNotifications(q, t) == SelectSeq(q, LAMBDA n : IsDue(n, t))

\* notificationIds.includes(x)
Includes(notificationIds, x) == \E i \in 1..Len(notificationIds) : notificationIds[i] = x

\* a removal that stops at the first match (findIndex and splice): the
\* fault C7 is tested against
markOnlyFirst(q, notificationIds) ==
    IF \E i \in 1..Len(q) : Includes(notificationIds, q[i].id)
    THEN LET k == CHOOSE i \in 1..Len(q) :
                    /\ Includes(notificationIds, q[i].id)
                    /\ \A j \in 1..(i - 1) : ~Includes(notificationIds, q[j].id)
         IN SubSeq(q, 1, k - 1) \o SubSeq(q, k + 1, Len(q))
    ELSE q

markNotificationsAsSent(q, notificationIds) ==
    SelectSeq(q, LAMBDA n : ~Includes(notificationIds, n.id))

--------------------------------------------------------------------------
(* MentorService.generateNotifications (src/README.md 266-293) *)

ActionReminder(item, t, uid) ==
    [uid |-> uid,
     id |-> NoId,
     type |-> "action_reminder",
     priority |-> calculatePriority(item),
     triggerTime |-> calculateOptimalTriggerTime(item, t),
     created |-> t]

Encouragement(t, uid) ==
    [uid |-> uid,
     id |-> NoId,
     type |-> "encouragement",
     priority |-> "medium",
     triggerTime |-> t + EncouragementDelay,
     created |-> t]

\* a loop that stops after the first item: the fault C14 is tested against
QueueFirstItemOnly(q, items, t, uid) ==
    IF items = <<>> THEN q
    ELSE queueNotification(q, ActionReminder(Head(items), t, uid))

RECURSIVE QueueActionItems(_, _, _, _)
QueueActionItems(q, items, t, uid) ==
    IF items = <<>> THEN q
    ELSE QueueActionItems(queueNotification(q, ActionReminder(Head(items), t, uid)),
                          Tail(items), t, uid + 1)

\* a threshold that takes in the score 0.3 itself: the fault C15 is tested
\* against
NeedsEncouragementInclusive(insights) ==
    /\ insights.sentiment # NoSentiment
    /\ insights.sentiment[1] <= EncouragementThreshold

NeedsEncouragement(insights) ==
    /\ insights.sentiment # NoSentiment
    /\ insights.sentiment[1] < EncouragementThreshold

NumGenerated(insights) ==
    Len(insights.actionItems) + (IF NeedsEncouragement(insights) THEN 1 ELSE 0)

generateNotifications(q, insights, t, uid) ==
    LET q1 == IF Len(insights.actionItems) > 0
              THEN QueueActionItems(q, insights.actionItems, t, uid)
              ELSE q
    IN IF NeedsEncouragement(insights)
       THEN queueNotification(q1, Encouragement(t, uid + Len(insights.actionItems)))
       ELSE q1

extractInsights(conversationData) ==
    [sentiment |-> conversationData.sentiment,
     actionItems |-> extractActionItems(conversationData)]

--------------------------------------------------------------------------
(* Inputs *)

ItemSeqs == UNION {[1..k -> ActionItems] : k \in 0..MaxItems}

Sentiments == {NoSentiment} \cup {<<s>> : s \in SentimentScores}

InsightInputs == [actionItems : ItemSeqs, sentiment : Sentiments]

ConversationInputs == [sentiment : Sentiments]

\* the amounts by which the clock is observed to advance
ClockSteps == {LowDelay, TriggerDelay}

--------------------------------------------------------------------------
(* Initial state: the constructors (src/README.md 224-228, 364-367) *)

(* OmiService (src/services/omiService.js) *)

\* deviceId = null
NoDevice == "<null>"

\* the subscription returned while no device is connected closes over no listener
NoListener == <<>>

Devices == {"omi-1", "omi-2"}

(* The service after its constructor.  intervals holds the handles of the
   setInterval timers not yet cleared; subscriptions holds the objects
   subscribeToConversations has returned, each with the listenerId its remove
   closes over and, for reference, the handle of the timer its call armed. *)
OmiConstructed ==
    [isConnected |-> FALSE,
     deviceId |-> NoDevice,
     listeners |-> <<>>,
     intervals |-> {},
     nextInterval |-> 1,
     subscriptions |-> <<>>]

DigitChars == <<"0", "1", "2", "3", "4", "5", "6", "7", "8", "9">>

\* Number.prototype.toString of a non-negative integer: its decimal digits
RECURSIVE toString(_)
toString(n) ==
    IF n < 10 THEN <<DigitChars[n + 1]>>
    ELSE Append(toString(n \div 10), DigitChars[(n % 10) + 1])

\* listeners.findIndex(listener => listener.id === listenerId); 0 for -1
FindIndex(listeners, listenerId) ==
    LET hits == {i \in 1..Len(listeners) : listeners[i].id = listenerId}
    IN IF hits = {} THEN 0 ELSE CHOOSE i \in hits : \A j \in hits : i <= j

SpliceOut(s, i) == SubSeq(s, 1, i - 1) \o SubSeq(s, i + 1, Len(s))

removeListener(o, listenerId) ==
    LET index == FindIndex(o.listeners, listenerId)
    IN IF index # 0
       THEN [o EXCEPT !.intervals = @ \ {o.listeners[index].intervalId},
                      !.listeners = SpliceOut(@, index)]
       ELSE o

(* sendNotification: on ios and on android the notification is handed to the
   platform's sender, whose promise the caller awaits; on any other platform
   neither branch is taken and the async function returns undefined, so the
   awaited promise is fulfilled without any channel having been called. *)
Channels == {"ios", "android"}

Platforms == Channels \cup {"web"}

HasChannel(os) == os \in Channels

SendOutcomes(os) == IF HasChannel(os) THEN BOOLEAN ELSE {TRUE}

InitOn(os) ==
    /\ now = 0
    /\ nextUid = 1
    /\ userProfile = NoSentiment
    /\ conversationHistory = <<>>
    /\ notificationQueue = <<>>
    /\ notificationInterval = NoInterval
    /\ timers = {}
    /\ nextTimer = 1
    /\ runs = <<>>
    /\ delivered = {}
    /\ platform = os
    /\ omi = OmiConstructed
    /\ last = [op |-> "other"]

(* The device of the scheduler's other specifications has a delivery channel;
   InitPlatform leaves Platform.OS open. *)
Init == InitOn("ios")

InitPlatform == \E os \in Platforms : InitOn(os)

--------------------------------------------------------------------------
(* The clock *)

Advance(d) ==
    /\ now + d <= MaxTime
    /\ now' = now + d
    /\ last' = [op |-> "other"]
    /\ UNCHANGED <<omi, platform, nextUid, userProfile, conversationHistory, notificationQueue,
                   notificationInterval, timers, nextTimer, runs, delivered>>

--------------------------------------------------------------------------
(* MentorService operations *)

\* fewer than limit notifications have been constructed so far
Room(k, limit) == nextUid + k - 1 <= limit

\* an update that puts the entry in front of the history (unshift for
\* push): the fault C25 is tested against
UpdateUserProfileUnshift(conversationData) ==
    LET insights == extractInsights(conversationData)
    IN /\ Room(NumGenerated(insights), MaxNotifs)
       /\ userProfile' = insights.sentiment
       /\ conversationHistory' =
              <<[timestamp |-> now, data |-> conversationData, insights |-> insights]>>
                  \o conversationHistory
       /\ notificationQueue' = generateNotifications(notificationQueue, insights, now, nextUid)
       /\ nextUid' = nextUid + NumGenerated(insights)
       /\ last' = [op |-> "generate", insights |-> insights, data |-> conversationData]
       /\ UNCHANGED <<omi, platform, now, notificationInterval, timers, nextTimer, runs, delivered>>

UpdateUserProfile(conversationData) ==
    LET insights == extractInsights(conversationData)
    IN /\ Room(NumGenerated(insights), MaxNotifs)
       /\ userProfile' = insights.sentiment
       /\ conversationHistory' =
              Append(conversationHistory,
                     [timestamp |-> now, data |-> conversationData, insights |-> insights])
       /\ notificationQueue' = generateNotifications(notificationQueue, insights, now, nextUid)
       /\ nextUid' = nextUid + NumGenerated(insights)
       /\ last' = [op |-> "generate", insights |-> insights, data |-> conversationData]
       /\ UNCHANGED <<omi, platform, now, notificationInterval, timers, nextTimer, runs, delivered>>

GenerateNotificationsCall(insights) ==
    /\ Room(NumGenerated(insights), MaxNotifs)
    /\ notificationQueue' = generateNotifications(notificationQueue, insights, now, nextUid)
    /\ nextUid' = nextUid + NumGenerated(insights)
    /\ last' = [op |-> "generate", insights |-> insights]
    /\ UNCHANGED <<omi, platform, now, userProfile, conversationHistory,
                   notificationInterval, timers, nextTimer, runs, delivered>>

QueueNotificationCall(hasProfile, insight) ==
    /\ Room(1, MaxNotifs)
    /\ notificationQueue' =
           queueNotification(notificationQueue,
                             generateNotification(hasProfile, insight, now, nextUid))
    /\ nextUid' = nextUid + 1
    /\ last' = [op |-> "other"]
    /\ UNCHANGED <<omi, platform, now, userProfile, conversationHistory,
                   notificationInterval, timers, nextTimer, runs, delivered>>

\* the id lists a caller may pass: ids of queued notifications and an id
\* that no notification carries
UnknownId == <<"none">>

KnownIds == {notificationQueue[i].id : i \in 1..Len(notificationQueue)}
                \cup {UnknownId}

IdLists == {<<>>} \cup {<<a>> : a \in KnownIds} \cup {<<a, b>> : a \in KnownIds, b \in KnownIds}

MarkNotificationsAsSentCall(notificationIds) ==
    /\ notificationQueue # <<>>
    /\ notificationQueue' = markNotificationsAsSent(notificationQueue, notificationIds)
    /\ last' = [op |-> "markSent", ids |-> notificationIds,
                removed |-> Len(notificationQueue) - Len(notificationQueue')]
    /\ UNCHANGED <<omi, platform, now, nextUid, userProfile, conversationHistory,
                   notificationInterval, timers, nextTimer, runs, delivered>>

--------------------------------------------------------------------------
(* NotificationService (src/README.md 363-404) *)

Start ==
    /\ nextTimer <= MaxTimers
    /\ timers' = timers \cup {nextTimer}
    /\ notificationInterval' = nextTimer
    /\ nextTimer' = nextTimer + 1
    /\ last' = [op |-> "other"]
    /\ UNCHANGED <<omi, platform, now, nextUid, userProfile, conversationHistory,
                   notificationQueue, runs, delivered>>

Stop ==
    /\ IF notificationInterval # NoInterval
       THEN /\ timers' = timers \ {notificationInterval}
            /\ notificationInterval' = NoInterval
       ELSE UNCHANGED <<timers, notificationInterval>>
    /\ last' = [op |-> "other"]
    /\ UNCHANGED <<omi, platform, now, nextUid, userProfile, conversationHistory,
                   notificationQueue, nextTimer, runs, delivered>>

\* a new invocation, suspended at its first await; seen tells the
\* notifications constructed before its read of the queue from the later ones
NewRun(pendingNotifications) ==
    [pending |-> pendingNotifications,
     seen |-> nextUid,
     idx |-> 1,
     sent |-> <<>>,
     failed |-> {},
     attempted |-> <<pendingNotifications[1].uid>>]

\* the timer callback: checkAndSendNotifications up to its first await
Tick(h) ==
    LET pendingNotifications == getPendingNotifications(notificationQueue, now)
    IN /\ h \in timers
       /\ IF Len(pendingNotifications) = 0
          THEN runs' = runs
          ELSE /\ Len(runs) < MaxRuns
               /\ runs' = Append(runs, NewRun(pendingNotifications))
       /\ last' = [op |-> "tick", timer |-> h]
       /\ UNCHANGED <<omi, platform, now, nextUid, userProfile, conversationHistory,
                      notificationQueue, notificationInterval, timers, nextTimer,
                      delivered>>

\* a loop body without the try/catch, which a rejection leaves: the fault
\* C3 is tested against
ResumeRethrow(r, ok) ==
    LET n == r.pending[r.idx]
    IN IF ok
       THEN [r EXCEPT !.sent = Append(@, n.id),
                      !.idx = @ + 1,
                      !.attempted = IF r.idx < Len(r.pending)
                                    THEN Append(@, r.pending[r.idx + 1].uid) ELSE @]
       ELSE [r EXCEPT !.failed = @ \cup {n.uid}, !.idx = Len(r.pending) + 1]

\* a loop body that pushes the id outside the try block, whatever the
\* outcome: the fault C22 is tested against
ResumePushAlways(r, ok) ==
    LET n == r.pending[r.idx]
        r1 == IF ok THEN [r EXCEPT !.sent = Append(@, n.id)]
                    ELSE [r EXCEPT !.failed = @ \cup {n.uid}, !.sent = Append(@, n.id)]
    IN [r1 EXCEPT !.idx = @ + 1,
                  !.attempted = IF r.idx < Len(r.pending)
                                THEN Append(@, r.pending[r.idx + 1].uid) ELSE @]

\* the loop body after the await: push the id on success, catch and log on
\* failure, then go on to the next pending notification
Resume(r, ok) ==
    LET n == r.pending[r.idx]
        r1 == IF ok THEN [r EXCEPT !.sent = Append(@, n.id)]
                    ELSE [r EXCEPT !.failed = @ \cup {n.uid}]
    IN [r1 EXCEPT !.idx = @ + 1,
                  !.attempted = IF r.idx < Len(r.pending)
                                THEN Append(@, r.pending[r.idx + 1].uid) ELSE @]

RemoveAt(s, i) == SubSeq(s, 1, i - 1) \o SubSeq(s, i + 1, Len(s))

\* the delivery channel settles the dispatch invocation i is awaiting
SendSettles(i, ok) ==
    /\ i \in 1..Len(runs)
    /\ LET r == runs[i]
           n == r.pending[r.idx]
           r2 == Resume(r, ok)
       IN /\ ok \in SendOutcomes(platform)
          /\ delivered' = IF ok /\ HasChannel(platform)
                          THEN delivered \cup {n.uid} ELSE delivered
          /\ IF r2.idx <= Len(r2.pending)
             THEN /\ runs' = [runs EXCEPT ![i] = r2]
                  /\ notificationQueue' = notificationQueue
                  /\ last' = [op |-> "other"]
             ELSE /\ runs' = RemoveAt(runs, i)
                  /\ notificationQueue' = markNotificationsAsSent(notificationQueue, r2.sent)
                  /\ last' = [op |-> "tickDone",
                              pending |-> Uids(r2.pending),
                              attempted |-> r2.attempted,
                              failed |-> r2.failed,
                              ids |-> r2.sent]
    /\ UNCHANGED <<omi, platform, now, nextUid, userProfile, conversationHistory,
                   notificationInterval, timers, nextTimer>>

--------------------------------------------------------------------------
(* The scheduler running against the store: timer ticks, settling          *)
(* dispatches and start()/stop() interleaved with the producers of the     *)
(* queue.                                                                   *)

Next ==
    \/ \E d \in ClockSteps : Advance(d)
    \/ \E s \in InsightInputs :
           Room(NumGenerated(s), MaxDispatch) /\ GenerateNotificationsCall(s)
    \/ \E p \in BOOLEAN, s \in FactoryInsights :
           Room(1, MaxDispatch) /\ QueueNotificationCall(p, s)
    \/ Start
    \/ Stop
    \/ \E h \in timers : Tick(h)
    \/ \E i \in 1..Len(runs), ok \in BOOLEAN : SendSettles(i, ok)

Spec == Init /\ [][Next]_vars

(* The scheduler on a device of any platform. *)
SpecPlatform == InitPlatform /\ [][Next]_vars

(* The store alone, driven through its public operations. *)

NextStore ==
    \/ \E d \in ClockSteps : Advance(d)
    \/ \E c \in ConversationInputs :
           Len(conversationHistory) < MaxHistory /\ UpdateUserProfile(c)
    \/ \E s \in InsightInputs : GenerateNotificationsCall(s)
    \/ \E p \in BOOLEAN, s \in FactoryInsights : QueueNotificationCall(p, s)
    \/ \E l \in IdLists : MarkNotificationsAsSentCall(l)

SpecStore == Init /\ [][NextStore]_vars

(* The profile: conversations arriving one after the other, between the    *)
(* other operations of the store.                                           *)

NextProfile ==
    \/ \E d \in ClockSteps : Advance(d)
    \/ \E c \in ConversationInputs :
           Len(conversationHistory) < MaxProfileHistory /\ UpdateUserProfile(c)
    \/ \E s \in InsightInputs :
           Room(NumGenerated(s), MaxDispatch) /\ GenerateNotificationsCall(s)
    \/ \E l \in IdLists : MarkNotificationsAsSentCall(l)

SpecProfile == Init /\ [][NextProfile]_vars

--------------------------------------------------------------------------
(* The functions of mentorUtils.js, each called on its own *)

PriorityInputs == {"high", "medium", "low"}

CalculateOptimalDeliveryTimeCall(hasProfile, priority) ==
    /\ last' = [op |-> "deliveryTime",
                hasProfile |-> hasProfile,
                priority |-> priority,
                result |-> calculateOptimalDeliveryTime(hasProfile, priority, now)]
    /\ UNCHANGED <<omi, platform, now, nextUid, userProfile, conversationHistory, notificationQueue,
                   notificationInterval, timers, nextTimer, runs, delivered>>

\* an insight all of whose payload fields are missing
BlankInsight(type) ==
    [present |-> TRUE, type |-> type, content |-> Undefined, urgency |-> Undefined,
     participants |-> NoParticipants, timeUntil |-> Undefined, context |-> Undefined,
     focusState |-> Undefined, duration |-> Undefined, suggestion |-> Undefined,
     topic |-> Undefined]

\* !insight
AbsentInsight == [BlankInsight(Undefined) EXCEPT !.present = FALSE]

TypeInputs ==
    {Undefined, "", NumberValue, "action_item", "ACTION_ITEM", "meeting_prep",
     "focus_time", "wellbeing", "learning", "social", "reminder"}

UrgencyInputs == {"high", "low", "critical", ""}

BuildInsights ==
    {AbsentInsight}
    \cup {BlankInsight(type) : type \in TypeInputs}
    \cup {[BlankInsight("action_item") EXCEPT !.content = "finish the report",
                                             !.urgency = u] : u \in UrgencyInputs}
    \cup {[BlankInsight("Meeting_Prep") EXCEPT
               !.participants = <<<<"Sarah", "Michael">>>>, !.timeUntil = "15"],
          [BlankInsight("wellbeing") EXCEPT !.content = "Take a short break."],
          [BlankInsight("learning") EXCEPT !.topic = "design review",
                                           !.suggestion = "a course on design"]}

BuildProfiles ==
    {NoProfile}
    \cup {<<style>> : style \in {Undefined, NumberValue, "supportive coach",
                                  "Supportive Coach", "supportive_coach",
                                  "direct advisor", "analytical guide",
                                  "friendly companion", "productivity expert"}}

GenerateNotificationCall(profile, insight) ==
    /\ last' = [op |-> "build",
                profile |-> profile,
                insight |-> insight,
                result |-> GenerateNotificationResult(profile, insight, now)]
    /\ UNCHANGED <<omi, platform, now, nextUid, userProfile, conversationHistory, notificationQueue,
                   notificationInterval, timers, nextTimer, runs, delivered>>

\* texts: null, the empty string, and up to MaxAtoms atoms followed by up
\* to MaxFiller further words that carry no sentiment
SentimentAtoms == {"Great", "bad", "."}

NullText == [given |-> FALSE, atoms |-> <<>>]

SentimentTexts ==
    {NullText}
    \cup {[given |-> TRUE, atoms |-> a \o [i \in 1..k |-> "meeting"]] :
             a \in UNION {[1..n -> SentimentAtoms] : n \in 0..MaxAtoms},
             k \in 0..MaxFiller}

\* analyzeSentiment on the texts, evaluated once
SentimentOf == [text \in SentimentTexts |-> analyzeSentiment(text)]

AnalyzeSentimentCall(text) ==
    /\ last' = [op |-> "sentiment", text |-> text, result |-> SentimentOf[text]]
    /\ UNCHANGED <<omi, platform, now, nextUid, userProfile, conversationHistory, notificationQueue,
                   notificationInterval, timers, nextTimer, runs, delivered>>

\* the sentences a conversation text is made of
SentenceInputs ==
    {<<"I", "need", "to", "finish", "the", "report", "by", "tomorrow">>,
     <<"Um", "I", "need", "to", "finish", "the", "report", "by", "tomorrow">>,
     <<"It", "was", "a", "great", "meeting">>,
     <<"William", "was", "here", "today">>,
     <<"I", "will", "go">>,
     <<"Some", "of", "us", "should", "rest">>}

\* texts: null, the empty string, one sentence without a full stop, and
\* two sentences, each closed by a full stop
ActionTexts ==
    {[given |-> FALSE, chars |-> <<>>], [given |-> TRUE, chars |-> <<>>]}
    \cup {[given |-> TRUE, chars |-> Spell(a)] : a \in SentenceInputs}
    \cup {[given |-> TRUE,
           chars |-> Spell(a) \o <<".", " ">> \o Spell(b) \o <<".">>] :
             a \in SentenceInputs, b \in SentenceInputs}

\* extractActionItems on the texts, evaluated once
ActionItemsOf == [text \in ActionTexts |-> ExtractActionItems(text)]

ExtractActionItemsCall(text) ==
    /\ last' = [op |-> "actionItems", text |-> text, result |-> ActionItemsOf[text]]
    /\ UNCHANGED <<omi, platform, now, nextUid, userProfile, conversationHistory, notificationQueue,
                   notificationInterval, timers, nextTimer, runs, delivered>>

NextUtils ==
    \/ \E d \in ClockSteps : Advance(d)
    \/ \E p \in BOOLEAN, pr \in PriorityInputs : CalculateOptimalDeliveryTimeCall(p, pr)
    \/ \E p \in BuildProfiles, s \in BuildInsights : GenerateNotificationCall(p, s)
    \/ \E text \in SentimentTexts : AnalyzeSentimentCall(text)
    \/ \E text \in ActionTexts : ExtractActionItemsCall(text)

SpecUtils == Init /\ [][NextUtils]_vars

--------------------------------------------------------------------------
(* identifyTopics called on its own *)

TopicWords == {"project", "gym", "Budget", "hello"}

\* texts: null, and up to MaxTopicWords words
TopicTexts ==
    {[given |-> FALSE, words |-> <<>>]}
    \cup {[given |-> TRUE, words |-> w] :
             w \in UNION {[1..n -> TopicWords] : n \in 0..MaxTopicWords}}

MaxTopicsInputs == {<<>>, <<0>>, <<1>>, <<2>>}

\* identifyTopics on the inputs, evaluated once
TopicsOf ==
    [text \in TopicTexts, maxTopics \in MaxTopicsInputs |-> identifyTopics(text, maxTopics)]

IdentifyTopicsCall(text, maxTopics) ==
    /\ last' = [op |-> "topics", text |-> text, maxTopics |-> maxTopics,
                result |-> TopicsOf[text, maxTopics]]
    /\ UNCHANGED <<omi, platform, now, nextUid, userProfile, conversationHistory, notificationQueue,
                   notificationInterval, timers, nextTimer, runs, delivered>>

NextTopics ==
    \E text \in TopicTexts, m \in MaxTopicsInputs : IdentifyTopicsCall(text, m)

SpecTopics == Init /\ [][NextTopics]_vars

--------------------------------------------------------------------------
(* OmiService: connection, subscriptions and their recurring callbacks *)

OmiUnchanged ==
    UNCHANGED <<now, nextUid, userProfile, conversationHistory, notificationQueue,
                notificationInterval, timers, nextTimer, runs, delivered, platform>>

ConnectToDevice(deviceId) ==
    /\ omi' = [omi EXCEPT !.isConnected = TRUE, !.deviceId = deviceId]
    /\ last' = [op |-> "connect"]
    /\ OmiUnchanged

Disconnect ==
    /\ omi' = IF ~omi.isConnected THEN omi
              ELSE [omi EXCEPT !.isConnected = FALSE, !.deviceId = NoDevice]
    /\ last' = [op |-> "disconnect"]
    /\ OmiUnchanged

SubscribeToConversations ==
    /\ Len(omi.subscriptions) < MaxSubscriptions
    /\ IF ~omi.isConnected
       THEN omi' = [omi EXCEPT !.subscriptions =
                        Append(@, [listenerId |-> NoListener, interval |-> NoInterval])]
       ELSE LET intervalId == omi.nextInterval
                listenerId == toString(now)
            IN omi' = [omi EXCEPT
                          !.intervals = @ \cup {intervalId},
                          !.nextInterval = @ + 1,
                          !.listeners = Append(@, [id |-> listenerId,
                                                   intervalId |-> intervalId]),
                          !.subscriptions = Append(@, [listenerId |-> listenerId,
                                                       interval |-> intervalId])]
    /\ last' = [op |-> "subscribe", connected |-> omi.isConnected]
    /\ OmiUnchanged

\* subscription.remove()
Remove(s) ==
    /\ s \in 1..Len(omi.subscriptions)
    /\ omi' = IF omi.subscriptions[s].listenerId = NoListener THEN omi
              ELSE removeListener(omi, omi.subscriptions[s].listenerId)
    /\ last' = [op |-> "remove", sub |-> s]
    /\ OmiUnchanged

\* the 30 s timer of a subscription fires: callback(mockData)
ListenerFires(h) ==
    /\ h \in omi.intervals
    /\ last' = [op |-> "callback", interval |-> h]
    /\ UNCHANGED omi
    /\ OmiUnchanged

NextOmi ==
    \/ \E d \in ClockSteps : Advance(d)
    \/ \E deviceId \in Devices : ConnectToDevice(deviceId)
    \/ Disconnect
    \/ SubscribeToConversations
    \/ \E s \in 1..MaxSubscriptions : Remove(s)
    \/ \E h \in 1..MaxSubscriptions : ListenerFires(h)

SpecOmi == Init /\ [][NextOmi]_vars

--------------------------------------------------------------------------
(* Properties *)

QueueUids == {notificationQueue[i].uid : i \in 1..Len(notificationQueue)}

PendingNow == getPendingNotifications(notificationQueue, now)

\* the number of invocations awaiting a dispatch of notification u
InFlight(u) ==
    Cardinality({i \in 1..Len(runs) : runs[i].pending[runs[i].idx].uid = u})

\* C1: a notification is dispatched at most once: once a dispatch of it has
\* succeeded or while one is still awaited, no tick calls sendNotification
\* for it again.
C1_DispatchedAtMostOnce ==
    \A u \in 1..(nextUid - 1) :
        InFlight(u) + (IF u \in delivered THEN 1 ELSE 0) <= 1

\* C2: when a tick has called markNotificationsAsSent, every notification
\* whose dispatch failed in that tick is still queued, and is due for the
\* next tick.
C2_FailedStaysQueued ==
    last.op = "tickDone" =>
        \A u \in last.failed :
            /\ u \in QueueUids
            /\ \E i \in 1..Len(PendingNow) : PendingNow[i].uid = u

\* C3: a tick attempts every notification getPendingNotifications returned
\* to it, in every invocation still in progress and in every finished one,
\* whichever dispatches failed.
C3_AllPendingAttempted ==
    /\ \A i \in 1..Len(runs) :
           runs[i].attempted = Uids(SubSeq(runs[i].pending, 1, runs[i].idx))
    /\ last.op = "tickDone" => last.attempted = last.pending

C3_Witness ==
    /\ last.op = "tickDone"
    /\ Len(last.pending) >= 2
    /\ last.pending[1] \in last.failed
    /\ last.attempted = last.pending

\* C4: no timer tick fires while the scheduler is stopped.
C4_NoTickAfterStop ==
    last.op = "tick" => notificationInterval # NoInterval

\* C5: at most one recurring check is armed, and one is armed exactly when
\* the scheduler is Running.
C5_AtMostOneRecurringCheck ==
    /\ Cardinality(timers) <= 1
    /\ (timers # {}) <=> (notificationInterval # NoInterval)

\* a is delivered before b: higher urgency, then earlier trigger time, then
\* earlier insertion
DeliveredBefore(a, b) ==
    LET ra == CASE a.priority = "high" -> 0 [] a.priority = "medium" -> 1 [] OTHER -> 2
        rb == CASE b.priority = "high" -> 0 [] b.priority = "medium" -> 1 [] OTHER -> 2
    IN \/ ra < rb
       \/ ra = rb /\ a.triggerTime < b.triggerTime
       \/ ra = rb /\ a.triggerTime = b.triggerTime /\ a.uid < b.uid

\* C6: getPendingNotifications(now) returns exactly the queued notifications
\* with triggerTime <= now, by priority, then trigger time, then insertion.
C6_PendingOrder ==
    /\ Range(PendingNow) =
           {notificationQueue[i] : i \in {j \in 1..Len(notificationQueue) :
                                            notificationQueue[j].triggerTime <= now}}
    /\ Cardinality(Range(PendingNow)) = Len(PendingNow)
    /\ \A i, j \in 1..Len(PendingNow) :
           i < j => DeliveredBefore(PendingNow[i], PendingNow[j])

C6_Witness ==
    /\ Len(notificationQueue) = 3
    /\ \E i, j, k \in 1..3 :
           /\ notificationQueue[i].uid = 1 /\ notificationQueue[i].priority = "low"
           /\ notificationQueue[j].uid = 2 /\ notificationQueue[j].priority = "high"
           /\ notificationQueue[k].uid = 3 /\ notificationQueue[k].priority = "medium"
           /\ notificationQueue[i].created = notificationQueue[j].created
           /\ notificationQueue[j].created = notificationQueue[k].created
    /\ Len(PendingNow) = 3
    /\ PendingNow[1].priority = "high"
    /\ PendingNow[2].priority = "medium"
    /\ PendingNow[3].priority = "low"

\* C7: markNotificationsAsSent(ids) removes exactly the notifications whose
\* id is in ids, keeps the others in their order, and a second call with
\* the same ids changes nothing.
C7_MarkSentExact ==
    [][last'.op \in {"markSent", "tickDone"} =>
          LET ids == Range(last'.ids)
              b == notificationQueue
              a == notificationQueue'
          IN /\ \A i \in 1..Len(a) :
                    a[i].id \notin ids /\ \E j \in 1..Len(b) : b[j] = a[i]
             /\ \A j \in 1..Len(b) :
                    b[j].id \notin ids => \E i \in 1..Len(a) : a[i] = b[j]
             /\ \A i, k \in 1..Len(a) :
                    i < k => \E j, l \in 1..Len(b) : j < l /\ b[j] = a[i] /\ b[l] = a[k]
             /\ markNotificationsAsSent(a, last'.ids) = a]_vars

C7_Witness ==
    /\ last.op = "markSent"
    /\ last.removed >= 1
    /\ Len(notificationQueue) >= 1
    /\ UnknownId \in Range(last.ids)
    /\ Len(last.ids) = 2

\* C8: no two queued notifications have the same id.
C8_UniqueIds ==
    \A i, j \in 1..Len(notificationQueue) :
        i # j => notificationQueue[i].id # notificationQueue[j].id

\* C9: no notification is returned by getPendingNotifications or dispatched
\* by a tick before its triggerTime; one enqueued at T with triggerTime
\* T + 30 min is absent at T and present at T + 30 min.
C9_NeverEarly ==
    /\ \A i \in 1..Len(notificationQueue) :
           LET n == notificationQueue[i]
           IN /\ now < n.triggerTime => n \notin Range(PendingNow)
              /\ n.triggerTime = n.created + LowDelay =>
                     /\ n \notin Range(getPendingNotifications(notificationQueue, n.created))
                     /\ n \in Range(getPendingNotifications(notificationQueue,
                                                            n.created + LowDelay))
    /\ \A i \in 1..Len(runs) :
           \A k \in 1..runs[i].idx : runs[i].pending[k].triggerTime <= now

C9_Witness ==
    \E i \in 1..Len(runs) :
        LET n == runs[i].pending[runs[i].idx]
        IN /\ n.triggerTime = n.created + LowDelay
           /\ now = n.triggerTime
           /\ \E j \in 1..Len(notificationQueue) : now < notificationQueue[j].triggerTime

\* C10: generateNotifications at time T for a high-priority action item
\* enqueues a notification with triggerTime = T that
\* getPendingNotifications(T) returns.
C10_HighActionItemImmediate ==
    last.op = "generate" =>
        \A k \in 1..Len(last.insights.actionItems) :
            last.insights.actionItems[k].urgency = "high" =>
                \E i \in 1..Len(PendingNow) :
                    /\ PendingNow[i].type = "action_reminder"
                    /\ PendingNow[i].created = now
                    /\ PendingNow[i].triggerTime = now

\* C11 as stated: the delivery time is a function of the priority alone,
\* now for high, now + 5 minutes for medium, now + 30 minutes for low, with
\* or without a user profile
C11_PriorityAlone ==
    last.op = "deliveryTime" =>
        last.result = now + (CASE last.priority = "high" -> 0
                               [] last.priority = "medium" -> 5
                               [] last.priority = "low" -> 30)

\* C11, amended: with a user profile the delivery time is now for high,
\* now + 5 minutes for medium and now + 30 minutes for low; without a user
\* profile it is now for every priority
C11_PriorityWithProfile ==
    last.op = "deliveryTime" =>
        IF last.hasProfile
        THEN last.result = now + (CASE last.priority = "high" -> 0
                                    [] last.priority = "medium" -> 5
                                    [] last.priority = "low" -> 30)
        ELSE last.result = now

C11_Witness ==
    /\ last.op = "deliveryTime"
    /\ last.hasProfile
    /\ last.priority = "medium"
    /\ now > 0
    /\ last.result = now + 5

\* C12: every notification in the queue has a triggerTime at or after the
\* time it was created, after any sequence of enqueue and markSent operations
C12_TriggerNotBeforeCreation ==
    \A i \in 1..Len(notificationQueue) :
        notificationQueue[i].triggerTime >= notificationQueue[i].created

C12_Witness ==
    /\ last.op = "markSent"
    /\ last.removed > 0
    /\ \E i, j \in 1..Len(notificationQueue) :
           /\ notificationQueue[i].type = "action_reminder"
           /\ notificationQueue[i].created > 0
           /\ notificationQueue[i].triggerTime > notificationQueue[i].created
           /\ notificationQueue[j].triggerTime = notificationQueue[j].created

\* an invocation in progress has yet to dispatch notification u
Held(u) ==
    \E i \in 1..Len(runs) :
        \E j \in runs[i].idx..Len(runs[i].pending) : runs[i].pending[j].uid = u

\* C13: every enqueued notification is eventually dispatched successfully
\* while the scheduler runs and the channel eventually succeeds; no queued
\* notification is dropped undelivered: a notification that was enqueued
\* has been delivered, or is still queued, or is still to be dispatched by
\* an invocation in progress
C13_NoneDroppedUndelivered ==
    \A u \in 1..(nextUid - 1) :
        u \in delivered \/ u \in QueueUids \/ Held(u)

\* the positions of q holding a notification of the given type that the
\* call in progress has constructed
Constructed(q, type) ==
    {i \in 1..Len(q) : q[i].type = type /\ q[i].uid >= nextUid}

\* the notifications of q that were constructed before the call in progress
Earlier(q) == SelectSeq(q, LAMBDA n : n.uid < nextUid)

\* C14: generateNotifications enqueues exactly one action reminder for each
\* action item of the insights, whatever the sentiment, and keeps what was
\* queued; called on an empty queue with at least one action item it leaves
\* a non-empty queue that holds a notification of type action_reminder
C14_OneReminderPerItem ==
    [][last'.op = "generate" =>
          LET items == last'.insights.actionItems
              q == notificationQueue'
          IN /\ Cardinality(Constructed(q, "action_reminder")) = Len(items)
             /\ \A k \in 1..Len(items) :
                    \E i \in Constructed(q, "action_reminder") :
                        q[i].uid = nextUid + k - 1
             /\ Uids(Earlier(q)) = Uids(notificationQueue)
             /\ (notificationQueue = <<>> /\ Len(items) >= 1) =>
                    /\ q # <<>>
                    /\ \E i \in 1..Len(q) : q[i].type = "action_reminder"]_vars

C14_Witness ==
    /\ last.op = "generate"
    /\ Len(last.insights.actionItems) = 2
    /\ last.insights.sentiment = <<10>>
    /\ Len(notificationQueue) = 3
    /\ notificationQueue[1].type = "encouragement"
    /\ notificationQueue[2].type = "action_reminder"
    /\ notificationQueue[3].type = "action_reminder"

\* C15: generateNotifications called at time T with a sentiment score
\* enqueues exactly one encouragement notification, of medium priority and
\* with triggerTime T + 15 minutes, when the score is below 0.3, and no
\* sentiment notification when the score is 0.3 or above
C15_EncouragementBelowThreshold ==
    [][(last'.op = "generate" /\ last'.insights.sentiment # NoSentiment) =>
          LET score == last'.insights.sentiment[1]
              q == notificationQueue'
              new == Constructed(q, "encouragement")
          IN IF score < 30
             THEN /\ Cardinality(new) = 1
                  /\ \A i \in new : /\ q[i].priority = "medium"
                                     /\ q[i].triggerTime = now + 15
             ELSE new = {}]_vars

C15_Witness ==
    /\ last.op = "generate"
    /\ last.insights.sentiment = <<10>>
    /\ now > 0
    /\ \E i \in 1..Len(notificationQueue) :
           /\ notificationQueue[i].type = "encouragement"
           /\ notificationQueue[i].created = now
           /\ notificationQueue[i].triggerTime = now + 15

\* C16: generateNotification never raises an error: it returns null when
\* the insight is absent or carries no type, and for every other insight,
\* whatever its type value and whichever payload fields are missing, it
\* returns a notification with read = false
C16_BuildNeverRaises ==
    last.op = "build" =>
        /\ last.result.outcome # "TypeError"
        /\ IF ~last.insight.present \/ last.insight.type \in {Undefined, ""}
           THEN last.result.outcome = "null"
           ELSE /\ last.result.outcome = "notification"
                /\ last.result.read = FALSE

\* C17: the priority of every built notification is fixed by the insight
\* type (action_item: the insight's urgency or medium; meeting_prep: high;
\* focus_time and wellbeing: medium; learning and social: low; any other
\* type: medium) and is always one of high, medium, low
C17_PriorityByType ==
    (last.op = "build" /\ last.result.outcome = "notification") =>
        LET type == toLowerCase(last.insight.type)
            urgency == last.insight.urgency
        IN /\ last.result.priority =
                  IF type = "action_item"
                  THEN (IF urgency \in {Undefined, ""} THEN "medium" ELSE urgency)
                  ELSE IF type = "meeting_prep" THEN "high"
                  ELSE IF type \in {"learning", "social"} THEN "low"
                  ELSE "medium"
           /\ last.result.priority \in {"high", "medium", "low"}

\* s occurs in m as a contiguous run of pieces
Contains(m, s) ==
    \E k \in 0..(Len(m) - Len(s)) : SubSeq(m, k + 1, k + Len(s)) = s

Decorations ==
    {" You're doing great!", "Analysis: ", "Hey there! ", "For optimal productivity: "}

\* the number of decorations among the pieces of m
Decorated(m) == Cardinality({i \in 1..Len(m) : m[i] \in Decorations})

\* C18: for every insight and mentor style the style decoration is applied
\* once, after the content is generated: the decorated message is the
\* generated content itself, or the content with one decoration in front of
\* it or behind it, so the content is a contiguous part of the message
C18_DecorationKeepsContent ==
    (last.op = "build" /\ last.result.outcome = "notification") =>
        LET content == FactoryMessage(last.insight)
            message == last.result.message
        IN /\ Contains(Text(message), Text(content))
           /\ Decorated(message) <= 1
           /\ \/ message = content
              \/ \E d \in Decorations : \/ message = <<d>> \o Text(content)
                                         \/ message = Text(content) \o <<d>>

C18_Witness ==
    /\ last.op = "build"
    /\ last.profile = <<"Supportive Coach">>
    /\ last.insight.type = "Meeting_Prep"
    /\ last.result.outcome = "notification"
    /\ last.result.message =
           <<"You have a meeting with ", "Sarah", ", ", "Michael", " in ", "15",
             " minutes. ", "", " You're doing great!">>

\* C19: for every text, empty or null included, analyzeSentiment returns a
\* score in [0, 1] and the label the thresholds assign to that score
\* (>= 0.75 very positive, >= 0.6 positive, >= 0.4 neutral, >= 0.25
\* negative, else very negative); an empty or null text gives the score 0.5
\* and the label neutral
C19_ScoreAndLabel ==
    last.op = "sentiment" =>
        LET num == last.result.num
            den == last.result.den
            label == last.result.label
        IN /\ den > 0
           /\ 0 <= num /\ num <= den
           /\ label = "very positive" <=> 100 * num >= 75 * den
           /\ label = "positive" <=> (100 * num >= 60 * den /\ 100 * num < 75 * den)
           /\ label = "neutral" <=> (100 * num >= 40 * den /\ 100 * num < 60 * den)
           /\ label = "negative" <=> (100 * num >= 25 * den /\ 100 * num < 40 * den)
           /\ label = "very negative" <=> 100 * num < 25 * den
           /\ (~last.text.given \/ last.text.atoms = <<>>) =>
                  (2 * num = den /\ label = "neutral")

C19_Witness ==
    /\ last.op = "sentiment"
    /\ Len(last.text.atoms) = 25
    /\ last.text.atoms[1] = "Great"
    /\ 10 * last.result.num = 6 * last.result.den
    /\ last.result.label = "positive"

\* C20: for the sentence "I need to finish the report by tomorrow", an
\* action phrase preceded by lead-in words, the extracted action item is
\* the cleaned task text, which begins with "finish the report"; for a text
\* that contains no action phrase the list of action items is empty
C20_CleanedActionItem ==
    last.op = "actionItems" =>
        /\ last.text.chars =
               Spell(<<"I", "need", "to", "finish", "the", "report", "by", "tomorrow">>)
             => /\ Len(last.result) = 1
                /\ StartsWith(last.result[1], Spell(<<"finish", "the", "report">>))
        /\ (\A k \in 1..Len(actionPhrases) :
                ~IncludesText(Lower(last.text.chars), actionPhrases[k]))
             => last.result = <<>>

\* the place of a topic in the declaration
TopicIndex(topic) == CHOOSE i \in 1..Len(topicKeywords) : topicKeywords[i].topic = topic

\* C21: identifyTopics returns at most maxTopics topics (3 when maxTopics
\* is omitted), each with a positive count of keyword matches, in
\* descending order of count, topics of equal count in the order of
\* declaration; no topic with a positive count is left out in favour of a
\* topic with a lower count
C21_TopTopics ==
    last.op = "topics" =>
        LET result == last.result
            count(topic) == topicScores(last.text.words)[TopicIndex(topic)].score
            limit == IF last.maxTopics = <<>> THEN 3 ELSE last.maxTopics[1]
        IN /\ Len(result) <= limit
           /\ \A i \in 1..Len(result) : last.text.given /\ count(result[i]) > 0
           /\ \A i, j \in 1..Len(result) :
                  i < j => \/ count(result[i]) > count(result[j])
                           \/ /\ count(result[i]) = count(result[j])
                              /\ TopicIndex(result[i]) < TopicIndex(result[j])
           /\ last.text.given =>
                  \A k \in 1..Len(topicKeywords) :
                      LET topic == topicKeywords[k].topic
                      IN (count(topic) > 0 /\ topic \notin Range(result)) =>
                             /\ Len(result) = limit
                             /\ \A i \in 1..Len(result) : count(result[i]) >= count(topic)

C21_Witness ==
    /\ last.op = "topics"
    /\ last.text.words = <<"project", "gym", "gym">>
    /\ last.maxTopics = <<2>>
    /\ last.result = <<"health", "work">>

\* the ids of the notifications of pending whose dispatch did not fail
SucceededIds(pending, failed) ==
    LET ok == SelectSeq(pending, LAMBDA n : n.uid \notin failed)
    IN [i \in 1..Len(ok) |-> ok[i].id]

\* C22: in each tick markNotificationsAsSent is called at most once, only
\* when the outcome of every dispatch of the tick is known, and with exactly
\* the ids whose dispatch succeeded in that tick: the queue shrinks only in
\* the step that ends an invocation, that invocation has then attempted all
\* its pending notifications and is gone afterwards, and the ids passed are
\* those of its notifications that did not fail
C22_MarkSentOncePerTick ==
    [][/\ Len(notificationQueue') < Len(notificationQueue) => last'.op = "tickDone"
       /\ last'.op = "tickDone" =>
              \E i \in 1..Len(runs) :
                  /\ runs' = RemoveAt(runs, i)
                  /\ runs[i].idx = Len(runs[i].pending)
                  /\ last'.attempted = Uids(runs[i].pending)
                  /\ last'.ids = SucceededIds(runs[i].pending, last'.failed)
                  /\ notificationQueue' =
                         markNotificationsAsSent(notificationQueue, last'.ids)]_vars

C22_Witness ==
    /\ last.op = "tickDone"
    /\ Len(last.pending) = 2
    /\ last.pending[1] \in last.failed
    /\ last.pending[2] \notin last.failed
    /\ Len(last.ids) = 1

\* C23: a notification that generateNotifications enqueues while a tick is
\* in progress, after the tick has read the pending notifications and before
\* its markNotificationsAsSent, is not dispatched by that tick and is still
\* in the queue when the tick ends, where the next tick finds it
C23_MidTickDeferred ==
    [][last'.op = "tickDone" =>
          \E i \in 1..Len(runs) :
              /\ runs' = RemoveAt(runs, i)
              /\ \A k \in 1..Len(notificationQueue) :
                     LET n == notificationQueue[k]
                     IN (n.uid >= runs[i].seen /\ n.id = NoId) =>
                            /\ n.uid \notin Range(last'.attempted)
                            /\ n.uid \in {notificationQueue'[j].uid :
                                              j \in 1..Len(notificationQueue')}]_vars

\* C24: within a tick the due notifications are dispatched in the order
\* getPendingNotifications returned them in: of two notifications a tick
\* has dispatched, the earlier one has the higher urgency, or the same
\* priority and a triggerTime that is not later
C24_DispatchOrder ==
    \A i \in 1..Len(runs) :
        LET r == runs[i]
        IN /\ r.attempted = Uids(SubSeq(r.pending, 1, Len(r.attempted)))
           /\ \A j, k \in 1..Len(r.attempted) :
                  j < k =>
                      \/ priorityOrder(r.pending[j].priority)
                             < priorityOrder(r.pending[k].priority)
                      \/ /\ r.pending[j].priority = r.pending[k].priority
                         /\ r.pending[j].triggerTime <= r.pending[k].triggerTime

C24_Witness ==
    \E i \in 1..Len(runs) :
        /\ Len(runs[i].attempted) = 2
        /\ runs[i].pending[1].priority = "high"
        /\ runs[i].pending[2].priority = "medium"
        /\ runs[i].pending[1].triggerTime > runs[i].pending[2].triggerTime

\* C25: the profile history is append-only: each updateUserProfile call
\* appends exactly one entry, with the conversation and its insights, at the
\* end of conversationHistory, and no operation reorders, changes or removes
\* an entry, other than pruning from the front
C25_HistoryAppendOnly ==
    [][IF last'.op = "generate" /\ "data" \in DOMAIN last'
       THEN conversationHistory' =
                Append(conversationHistory,
                       [timestamp |-> now, data |-> last'.data,
                        insights |-> last'.insights])
       ELSE \E k \in 0..Len(conversationHistory) :
                conversationHistory' =
                    SubSeq(conversationHistory, k + 1, Len(conversationHistory))]_vars

C25_Witness ==
    /\ last.op = "generate"
    /\ "data" \in DOMAIN last
    /\ Len(conversationHistory) = 3
    /\ conversationHistory[1].timestamp < conversationHistory[3].timestamp
    /\ conversationHistory[1].data # conversationHistory[3].data
    /\ conversationHistory[3].data = last.data

\* C26: no notification leaves the queue without having been dispatched
\* successfully: every notification that a tick's markNotificationsAsSent
\* removes is one whose own dispatch has succeeded, never one that failed,
\* was not yet due or was enqueued during the tick
C26_RemovedOnlyIfDelivered ==
    [][\A k \in 1..Len(notificationQueue) :
           notificationQueue[k].uid
               \notin {notificationQueue'[j].uid : j \in 1..Len(notificationQueue')}
           => notificationQueue[k].uid \in delivered']_vars

\* C27: at most one execution of checkAndSendNotifications is in progress
\* at any time: no tick starts while the dispatches of an earlier tick still
\* await their outcome, so no two ticks hold the same pending notification
C27_OneTickInProgress ==
    /\ Len(runs) <= 1
    /\ \A i, j \in 1..Len(runs) :
           i # j => Range(Uids(runs[i].pending)) \cap Range(Uids(runs[j].pending)) = {}

(* C28: a notification's id enters the tick's successful set only if a
   delivery channel accepted the notification; on a platform for which
   sendNotification calls no channel, the notifications the tick attempted
   are not treated as sent and stay in the queue. *)
C28_SentOnlyIfAccepted ==
    last.op = "tickDone" =>
        /\ \A u \in Range(last.attempted) :
               u \notin last.failed => u \in delivered
        /\ ~HasChannel(platform) =>
               /\ last.ids = <<>>
               /\ Range(last.attempted) \subseteq QueueUids

(* C29: while the service is not connected no conversation callback is
   delivered: a registered listener implies a connected device, and a
   subscription made while disconnected registers none. *)
C29_ListenersOnlyWhileConnected ==
    /\ omi.listeners # <<>> => omi.isConnected
    /\ last.op = "callback" => omi.isConnected
    /\ (last.op = "subscribe" /\ ~last.connected) =>
           omi.subscriptions[Len(omi.subscriptions)].listenerId = NoListener

(* C30: remove() on a subscription cancels exactly the timer that
   subscription's call armed and unregisters exactly its listener; every
   other subscription stays registered and firing, and a second remove()
   changes nothing. *)
C30_RemoveExactlyOwn ==
    [][last'.op = "remove" =>
          LET own == omi.subscriptions[last'.sub].interval
              kept == {i \in 1..Len(omi.listeners) : omi.listeners[i].intervalId # own}
          IN /\ omi'.intervals = omi.intervals \ {own}
             /\ {omi'.listeners[i].intervalId : i \in 1..Len(omi'.listeners)}
                    = {omi.listeners[i].intervalId : i \in kept}]_vars

======================================================================
